---- MODULE Spec2Model ----
(***************************************************************************)
(* The task orchestration engine of mac-vision-agent (src/langgraph_core). *)
(*                                                                         *)
(* A session is the LangGraph state graph built by VisionAgentGraph: a     *)
(* context (VisionAgentState), a cursor naming the node to run next, and   *)
(* one step per node: run the node function on the context, merge the      *)
(* delta it returns (a returned key overwrites the context's key, no       *)
(* channel has a reducer), evaluate the node's conditional edge function   *)
(* on the merged context and move the cursor.                              *)
(*                                                                         *)
(* Text is modelled as a sequence of fragments (strings).  The source's    *)
(* messages are Chinese; each fragment is named by an ASCII gloss and the  *)
(* sets ScreenKeywordFragments, ActionKeywordFragments and                 *)
(* AppKeywordFragments say which fragments contain a keyword of the three  *)
(* keyword lists of validator.py.  A keyword never spans two fragments     *)
(* (fragments are joined by ": ").  The empty sequence is None; no         *)
(* handler ever produces an empty string as a message.                     *)
(*                                                                         *)
(* Not modelled, because no control decision and no claim reads them:      *)
(* user_command, task_intent, messages, session_id, timestamp, and the     *)
(* timestamp / result entries of debug_info.                               *)
(***************************************************************************)
EXTENDS Integers, Sequences, FiniteSets, TLC

VARIABLES
    state,      \* the VisionAgentState of the session
    node,       \* the node the graph runs next, END when the run is over
    entry,      \* how the session was started: "run" or "node"
    first,      \* the first checkpoint of the session: the input of the run
    visited,    \* the nodes that wrote a checkpoint so far
    last,       \* the node that wrote the latest checkpoint
    captures,   \* what the capture checkpoints so far show, see CaptureLog
    sessions,   \* concurrent sessions: thread id -> its context and cursor
    files,      \* the screenshot directory: path -> the session that wrote it
    clock,      \* the wall clock, in seconds
    cancelled,  \* the caller has asked for the session to be cancelled
    answer,     \* what run / process_command gave its caller, see NoResult
    service     \* an ActionService: is_running, action_history, the input
                \* it has injected, what its latest call gave

vars == <<state, node, entry, first, visited, last, captures,
          sessions, files, clock, cancelled, answer, service>>

----------------------------------------------------------------------------
(* Bounds *)

MaxRetriesBound == 3

\* the calls made on an ActionService
MaxCalls == 4

\* the calls made on an ActionService that has a history already
MaxRecorded == 2

----------------------------------------------------------------------------
(* edges.py: node names *)

COMMAND_ANALYZER == "command_analyzer"
SCREEN_CAPTURE == "screen_capture"
SCREEN_ANALYZER == "screen_analyzer"
ACTION_EXECUTOR == "action_executor"
RESULT_VALIDATOR == "result_validator"
ERROR_HANDLER == "error_handler"
END == "__end__"

Nodes ==
    {COMMAND_ANALYZER, SCREEN_CAPTURE, SCREEN_ANALYZER, ACTION_EXECUTOR,
     RESULT_VALIDATOR, ERROR_HANDLER}

----------------------------------------------------------------------------
(* Optional values and text *)

None == "None"          \* an unset string-valued field
NoKey == "<absent>"     \* a key the collaborator's JSON reply does not carry
NoMessage == <<>>       \* error_message = None
NoList == <<>>          \* an unset list-valued field

\* dict.get(key, default) on a parsed JSON reply
Get(d, k, default) == IF d[k] = NoKey THEN default ELSE d[k]

\* str(x) inside an f-string: None prints as the text "None"
Str(msg) == IF msg = NoMessage THEN <<"None">> ELSE msg

\* validator.py:225  ['target element', 'coordinate', 'screenshot', 'screen', 'ui element']
ScreenKeywordFragments ==
    {"screen_capture_failed", "screen_analysis_failed",
     "no_clickable_target_element", "target_coordinates_incomplete",
     "screenshot_failed", "no_screenshot_available"}

\* validator.py:233  ['click' (zh), 'click', 'type' (zh), 'type', 'scroll' (zh), 'scroll']
ActionKeywordFragments ==
    {"no_clickable_target_element", "click_failed", "no_attribute_click",
     "no_text_to_type", "type_failed", "bad_scroll_direction",
     "scroll_failed", "no_attribute_scroll", "NoneType_has_no_attribute_get",
     "object_of_type_NoneType_has_no_len"}

\* validator.py:241  ['application' (zh), 'app', 'program' (zh), 'window' (zh)]
AppKeywordFragments ==
    {"no_app_name", "cannot_open_app", "open_app_failed"}

ContainsAny(msg, fragments) == \E i \in DOMAIN msg : msg[i] \in fragments

----------------------------------------------------------------------------
(* state.py *)

create_initial_state(max_retries) ==
    [ task_type |-> None,
      screenshot_path |-> None,
      screen_analysis |-> <<>>,
      ui_elements |-> NoList,
      target_elements |-> NoList,
      execution_plan |-> NoList,
      current_step |-> 0,
      execution_results |-> <<>>,
      retry_count |-> 0,
      max_retries |-> max_retries,
      is_completed |-> FALSE,
      is_success |-> FALSE,
      error_message |-> NoMessage,
      need_reanalyze |-> FALSE,
      debug_info |-> <<>> ]

\* The graph's channel update: every key of the delta replaces the context's.
Merge(s, delta) ==
    [k \in DOMAIN s |-> IF k \in DOMAIN delta THEN delta[k] ELSE s[k]]

----------------------------------------------------------------------------
(* nodes/analyzer.py *)

\* The parsed reply of the text-analysis collaborator (task_info): the keys
\* _create_execution_plan reads.  A key the reply lacks is NoKey.
TaskInfo(task_type, target_description, text_to_type, app_name, scroll_direction) ==
    [ task_type |-> task_type,
      target_description |-> target_description,
      text_to_type |-> text_to_type,
      app_name |-> app_name,
      scroll_direction |-> scroll_direction ]

\* analyzer.py:120-127, the structure used when the reply holds no JSON
DefaultTaskInfo == TaskInfo("analyze", "", NoKey, NoKey, NoKey)

TaskInfos ==
    { TaskInfo("click", "ok", NoKey, NoKey, NoKey),
      TaskInfo("click", NoKey, NoKey, NoKey, NoKey),
      TaskInfo("type", NoKey, "hello", NoKey, NoKey),
      TaskInfo("type", "ok", NoKey, NoKey, NoKey),
      TaskInfo("scroll", NoKey, NoKey, NoKey, "down"),
      TaskInfo("scroll", NoKey, NoKey, NoKey, "sideways"),
      TaskInfo("open_app", NoKey, NoKey, "Calculator", NoKey),
      TaskInfo("open_app", NoKey, NoKey, NoKey, NoKey),
      TaskInfo("analyze", NoKey, NoKey, NoKey, NoKey),
      TaskInfo("drag", NoKey, NoKey, NoKey, NoKey),
      TaskInfo("unknown", NoKey, NoKey, NoKey, NoKey),
      TaskInfo(NoKey, NoKey, NoKey, NoKey, NoKey) }

\* What the analysis step can meet: constructing Settings / VLMService
\* raises; the reply holds no JSON; the reply holds a JSON object.  The
\* reply built at analyzer.py:42 embeds user_command, so a command without
\* braces gives the "text" reply and a command that carries a JSON object
\* gives the "json" reply with that object as task_info.
AnalysisReplies ==
    { [kind |-> "raise", info |-> DefaultTaskInfo],
      [kind |-> "text", info |-> DefaultTaskInfo] }
    \cup { [kind |-> "json", info |-> ti] : ti \in TaskInfos }

\* ExecutionStep; target is None or the target's description, parameters is
\* flattened into text / app_name / direction (NoKey when not in the dict).
ExecutionStep(step_id, action_type, target, text, app_name, direction) ==
    [ step_id |-> step_id,
      action_type |-> action_type,
      target |-> target,
      text |-> text,
      app_name |-> app_name,
      direction |-> direction ]

\* create_execution_plan with a plan for 'analyze' but none for a type it
\* does not know
create_execution_plan_NoPlanForOther(task_info) ==
    LET task_type == Get(task_info, "task_type", "analyze") IN
    CASE task_type = "click" ->
           << ExecutionStep(1, "click",
                  Get(task_info, "target_description", ""),
                  NoKey, NoKey, NoKey) >>
      [] task_type = "type" ->
           << ExecutionStep(1, "click",
                  Get(task_info, "target_description", "input box"),
                  NoKey, NoKey, NoKey),
              ExecutionStep(2, "type", None,
                  Get(task_info, "text_to_type", ""), NoKey, NoKey) >>
      [] task_type = "scroll" ->
           << ExecutionStep(1, "scroll", None, NoKey, NoKey,
                  Get(task_info, "scroll_direction", "down")) >>
      [] task_type = "open_app" ->
           << ExecutionStep(1, "open_app", None, NoKey,
                  Get(task_info, "app_name", ""), NoKey) >>
      [] task_type = "analyze" ->
           << ExecutionStep(1, "analyze", None, NoKey, NoKey, NoKey) >>
      [] OTHER -> <<>>

create_execution_plan(task_info) ==
    LET task_type == Get(task_info, "task_type", "analyze") IN
    CASE task_type = "click" ->
           << ExecutionStep(1, "click",
                  Get(task_info, "target_description", ""),
                  NoKey, NoKey, NoKey) >>
      [] task_type = "type" ->
           << ExecutionStep(1, "click",
                  Get(task_info, "target_description", "input box"),
                  NoKey, NoKey, NoKey),
              ExecutionStep(2, "type", None,
                  Get(task_info, "text_to_type", ""), NoKey, NoKey) >>
      [] task_type = "scroll" ->
           << ExecutionStep(1, "scroll", None, NoKey, NoKey,
                  Get(task_info, "scroll_direction", "down")) >>
      [] task_type = "open_app" ->
           << ExecutionStep(1, "open_app", None, NoKey,
                  Get(task_info, "app_name", ""), NoKey) >>
      [] OTHER ->
           << ExecutionStep(1, "analyze", None, NoKey, NoKey, NoKey) >>

\* parse_analysis_result: a reply without JSON gives the default structure
parse_analysis_result(reply) ==
    IF reply.kind = "json" THEN reply.info ELSE DefaultTaskInfo

\* The delta of command_analyzer_node.  task_info['task_type'] (line 53)
\* raises KeyError when the JSON has no such key; every exception is caught
\* at line 70 and becomes error_message.
command_analyzer_node(s, reply) ==
    IF reply.kind = "raise"
    THEN [ error_message |-> <<"command_analysis_failed", "service_error">> ]
    ELSE LET task_info == parse_analysis_result(reply) IN
         IF task_info.task_type = NoKey
         THEN [ error_message |-> <<"command_analysis_failed", "task_type">> ]
         ELSE [ task_type |-> task_info.task_type,
                execution_plan |-> create_execution_plan(task_info),
                debug_info |-> s.debug_info ]

----------------------------------------------------------------------------
(* nodes/screen.py: screen_capture_node *)

\* ScreenService.capture_screen returns the path of the file it wrote, or
\* raises (screen_service.py:198-216, 243-266); Settings() and start() may
\* raise as well.
CaptureOutcomes ==
    { [kind |-> "ok", path |-> "shot.png"],
      [kind |-> "raise", path |-> None] }

screen_capture_node(s, outcome) ==
    IF outcome.kind = "raise"
    THEN [ error_message |-> <<"screen_capture_failed", "screenshot_failed">> ]
    ELSE [ screenshot_path |-> outcome.path,
           debug_info |-> s.debug_info ]

----------------------------------------------------------------------------
(* nodes/screen.py: screen_analyzer_node *)

\* UIElement as extract_ui_elements builds it.  confidence is in hundredths
\* (70 is 0.7); text is None or the element's text; has_xy says whether the
\* coordinates dict holds both 'x' and 'y'.
UIElement(element_id, element_type, text, confidence, has_xy) ==
    [ element_id |-> element_id,
      element_type |-> element_type,
      text |-> text,
      confidence |-> confidence,
      has_xy |-> has_xy ]

\* str.lower() on the texts of the model
Lower(text) ==
    CASE text = "OK" -> "ok"
      [] text = "OK button" -> "ok button"
      [] OTHER -> text

\* a in b (substring) on the lower-cased texts of the model
IsSubstring(a, b) ==
    \/ a = b
    \/ a = ""
    \/ <<a, b>> \in { <<"ok", "ok button">>, <<"ok", "look">> }

ButtonOk == UIElement("e1", "button", "OK", 90, TRUE)
ButtonLow == UIElement("e2", "button", "Cancel", 60, TRUE)
InputBox == UIElement("e3", "input", None, 80, TRUE)
LabelOk == UIElement("e4", "text", "OK button", 95, TRUE)
LinkNoXY == UIElement("e5", "link", "look", 90, FALSE)
MenuEdge == UIElement("e6", "menu_item", None, 70, TRUE)

\* The dict parse_screen_analysis returns: the reply's JSON object, or the
\* default structure (ui_elements = []) when the reply holds no JSON.  Only
\* the keys some function reads are kept: ui_elements (screen.py:211), and
\* screenshot_path / target_elements, which the edge functions look up in
\* this dict (edges.py:75, 104); a reply that follows the prompt's schema
\* has neither.
ScreenAnalysis(ui_elements, screenshot_path, target_elements) ==
    [ ui_elements |-> ui_elements,
      screenshot_path |-> screenshot_path,
      target_elements |-> target_elements ]

ScreenAnalyses ==
    { ScreenAnalysis(<<>>, NoKey, <<>>),
      ScreenAnalysis(<<ButtonLow, InputBox, ButtonOk, LinkNoXY, LabelOk, MenuEdge>>,
                     NoKey, <<>>),
      ScreenAnalysis(<<LinkNoXY, ButtonOk, InputBox>>, "shot.png", <<ButtonOk>>),
      ScreenAnalysis(<<ButtonOk, InputBox>>, "shot.png", <<ButtonOk>>),
      ScreenAnalysis(<<InputBox>>, "shot.png", <<InputBox>>) }

\* What the interpretation step can meet
AnalysisOutcomes ==
    { [kind |-> "raise", screen |-> ScreenAnalysis(<<>>, NoKey, <<>>)] }
    \cup { [kind |-> "reply", screen |-> sa] : sa \in ScreenAnalyses }

\* list.sort(key=confidence, reverse=True): stable, descending
RECURSIVE InsertByConfidence(_, _)
InsertByConfidence(sorted, e) ==
    IF sorted = <<>> THEN <<e>>
    ELSE IF Head(sorted).confidence >= e.confidence
         THEN <<Head(sorted)>> \o InsertByConfidence(Tail(sorted), e)
         ELSE <<e>> \o sorted

RECURSIVE SortByConfidence(_)
SortByConfidence(elements) ==
    IF elements = <<>> THEN <<>>
    ELSE InsertByConfidence(
             SortByConfidence(SubSeq(elements, 1, Len(elements) - 1)),
             elements[Len(elements)])

IsTarget(element, action_type, target_description) ==
    \/ action_type = "click"
         /\ element.element_type \in {"button", "link", "menu_item"}
    \/ action_type = "type"
         /\ element.element_type \in {"input", "textarea", "textfield"}
    \/ /\ target_description # ""
       /\ element.text \notin {None, ""}
       /\ IsSubstring(Lower(target_description), Lower(element.text))

\* identify_target_elements keeping the elements of confidence 0.7
identify_target_elements_AtLeast(ui_elements, s) ==
    IF s.execution_plan = NoList \/ s.current_step >= Len(s.execution_plan)
    THEN <<>>
    ELSE LET current_step_info == s.execution_plan[s.current_step + 1]
             selected == SelectSeq(ui_elements,
                 LAMBDA e : /\ IsTarget(e, current_step_info.action_type,
                                        current_step_info.target)
                            /\ e.confidence >= 70)
         IN  SortByConfidence(selected)

\* Defined when the step at the cursor has a target dict; the caller has
\* already raised otherwise (see screen_analyzer_node).
identify_target_elements(ui_elements, s) ==
    IF s.execution_plan = NoList \/ s.current_step >= Len(s.execution_plan)
    THEN <<>>
    ELSE LET current_step_info == s.execution_plan[s.current_step + 1]
             selected == SelectSeq(ui_elements,
                 LAMBDA e : /\ IsTarget(e, current_step_info.action_type,
                                        current_step_info.target)
                            /\ e.confidence > 70)
         IN  SortByConfidence(selected)

\* step.get('target', {}).get('description', '') raises AttributeError when
\* the step's target is None (the key is present, so the default is not
\* used): build_screen_analysis_prompt, line 134, and line 243.
TargetIsNone(s) ==
    /\ s.execution_plan # NoList
    /\ s.current_step < Len(s.execution_plan)
    /\ s.execution_plan[s.current_step + 1].target = None

screen_analyzer_node(s, outcome) ==
    IF s.screenshot_path \in {None, ""}
    THEN [ error_message |->
               <<"screen_analysis_failed", "no_screenshot_available">> ]
    ELSE IF TargetIsNone(s)
    THEN [ error_message |->
               <<"screen_analysis_failed", "NoneType_has_no_attribute_get">> ]
    ELSE IF outcome.kind = "raise"
    THEN [ error_message |-> <<"screen_analysis_failed", "vlm_error">> ]
    ELSE [ screen_analysis |-> <<outcome.screen>>,
           ui_elements |-> outcome.screen.ui_elements,
           target_elements |->
               identify_target_elements(outcome.screen.ui_elements, s),
           debug_info |-> s.debug_info ]

----------------------------------------------------------------------------
(* nodes/executor.py *)

ExecutionResult(step_id, success, error_message) ==
    [ step_id |-> step_id,
      success |-> success,
      error_message |-> error_message ]

\* What the action step can meet: constructing Settings / ActionService
\* raises ("raise"), or the service call returns True or False.  type_text
\* and open_application catch their own exceptions and return False
\* (action_service.py:247-250, 516-519).
ActionOutcomes == {"raise", "true", "false"}

\* execute_click whose call of the service clicks and returns
execute_click_Clicks(target_elements) ==
    IF ~(target_elements # <<>>)
    THEN <<"no_clickable_target_element">>
    ELSE IF ~target_elements[1].has_xy
    THEN <<"target_coordinates_incomplete">>
    ELSE NoMessage

\* ActionService defines click_at, not click: action_service.click raises
\* AttributeError, caught at executor.py:136.
execute_click(target_elements) ==
    IF ~(target_elements # <<>>)
    THEN <<"no_clickable_target_element">>
    ELSE IF ~target_elements[1].has_xy
    THEN <<"target_coordinates_incomplete">>
    ELSE <<"click_failed", "no_attribute_click">>

\* The value type_text returns is not looked at.
execute_type(step) ==
    IF Get(step, "text", "") = "" THEN <<"no_text_to_type">> ELSE NoMessage

\* ActionService has no scroll_up / scroll_down / scroll_left / scroll_right.
execute_scroll(step) ==
    IF Get(step, "direction", "down") \in {"up", "down", "left", "right"}
    THEN <<"scroll_failed", "no_attribute_scroll">>
    ELSE <<"bad_scroll_direction", Get(step, "direction", "down")>>

execute_open_app(step, outcome) ==
    IF Get(step, "app_name", "") = "" THEN <<"no_app_name">>
    ELSE IF outcome = "true" THEN NoMessage
    ELSE <<"cannot_open_app", Get(step, "app_name", "")>>

\* execute_action: the error of the step, NoMessage on success
ActionError(step, target_elements, outcome) ==
    CASE step.action_type = "click" -> execute_click(target_elements)
      [] step.action_type = "type" -> execute_type(step)
      [] step.action_type = "scroll" -> execute_scroll(step)
      [] step.action_type = "open_app" -> execute_open_app(step, outcome)
      [] step.action_type = "wait" -> NoMessage
      [] step.action_type = "analyze" -> NoMessage
      [] OTHER -> <<"unsupported_action_type", step.action_type>>

execute_action(step, target_elements, outcome) ==
    LET err == ActionError(step, target_elements, outcome) IN
        ExecutionResult(step.step_id, err = NoMessage, err)

\* should_reanalyze_screen without the test of the result's success
should_reanalyze_screen_IgnoresSuccess(action_type, execution_result) ==
    action_type \in {"click", "open_app", "scroll"}

should_reanalyze_screen(action_type, execution_result) ==
    IF ~execution_result.success THEN FALSE
    ELSE action_type \in {"click", "open_app", "scroll"}

action_executor_node(s, outcome) ==
    IF ~(s.execution_plan # NoList)
    THEN [ error_message |-> <<"action_execution_failed", "no_plan">> ]
    ELSE IF s.current_step >= Len(s.execution_plan)
    THEN [ is_completed |-> TRUE, is_success |-> TRUE ]
    ELSE IF outcome = "raise"
    THEN [ error_message |-> <<"action_execution_failed", "service_error">> ]
    ELSE LET current_step_info == s.execution_plan[s.current_step + 1]
             execution_result ==
                 execute_action(current_step_info, s.target_elements, outcome)
             result_update ==
                 [ execution_results |->
                       Append(s.execution_results, execution_result),
                   current_step |-> s.current_step + 1,
                   debug_info |-> s.debug_info ]
             reanalyze ==
                 IF should_reanalyze_screen(current_step_info.action_type,
                                            execution_result)
                 THEN [ need_reanalyze |-> TRUE ] ELSE <<>>
             failed ==
                 IF ~execution_result.success
                 THEN [ error_message |-> execution_result.error_message ]
                 ELSE <<>>
         IN  failed @@ reanalyze @@ result_update

----------------------------------------------------------------------------
(* nodes/validator.py: result_validator_node *)

handle_error_validation(s) ==
    IF s.retry_count >= s.max_retries
    THEN [ is_completed |-> TRUE, is_success |-> FALSE ]
    ELSE <<>>

\* the indices (from 0) of the failed results, printed
FailedSteps(execution_results) ==
    LET failed == SelectSeq([i \in 1..Len(execution_results) |-> i],
                            LAMBDA i : ~execution_results[i].success)
    IN  [k \in 1..Len(failed) |-> ToString(failed[k] - 1)]

\* validate_completion with any() in the place of all()
validate_completion_AnySuccess(s, execution_results) ==
    IF \E i \in 1..Len(execution_results) : execution_results[i].success
    THEN [ is_completed |-> TRUE,
           is_success |-> TRUE,
           debug_info |-> s.debug_info ]
    ELSE [ is_completed |-> TRUE,
           is_success |-> FALSE,
           error_message |->
               <<"some_steps_failed">> \o FailedSteps(execution_results),
           debug_info |-> s.debug_info ]

\* validate_completion judging the task by its last result alone
validate_completion_LastOnly(s, execution_results) ==
    IF \A i \in {Len(execution_results)} \cap DOMAIN execution_results :
           execution_results[i].success
    THEN [ is_completed |-> TRUE,
           is_success |-> TRUE,
           debug_info |-> s.debug_info ]
    ELSE [ is_completed |-> TRUE,
           is_success |-> FALSE,
           error_message |->
               <<"some_steps_failed">> \o FailedSteps(execution_results),
           debug_info |-> s.debug_info ]

validate_completion(s, execution_results) ==
    IF \A i \in 1..Len(execution_results) : execution_results[i].success
    THEN [ is_completed |-> TRUE,
           is_success |-> TRUE,
           debug_info |-> s.debug_info ]
    ELSE [ is_completed |-> TRUE,
           is_success |-> FALSE,
           error_message |->
               <<"some_steps_failed">> \o FailedSteps(execution_results),
           debug_info |-> s.debug_info ]

\* len(None) raises TypeError when the plan is unset; caught at line 67.
result_validator_node(s) ==
    IF s.error_message # NoMessage THEN handle_error_validation(s)
    ELSE IF s.execution_plan = NoList
    THEN [ error_message |->
               <<"result_validation_failed",
                 "object_of_type_NoneType_has_no_len">> ]
    ELSE IF s.current_step >= Len(s.execution_plan)
    THEN validate_completion(s, s.execution_results)
    ELSE IF /\ s.execution_results # <<>>
            /\ ~s.execution_results[Len(s.execution_results)].success
    THEN [ error_message |->
               s.execution_results[Len(s.execution_results)].error_message ]
    ELSE [ debug_info |-> s.debug_info ]

----------------------------------------------------------------------------
(* nodes/validator.py: error_handler_node *)

REANALYZE_SCREEN == "reanalyze_screen"
RETRY_CURRENT_STEP == "retry_current_step"

\* analyze_error_and_get_strategy testing the action keywords first
analyze_error_and_get_strategy_ActionFirst(error_message) ==
    LET msg == IF ~(error_message # <<>>) THEN <<"unknown_error">>
               ELSE error_message IN
    IF ContainsAny(msg, ActionKeywordFragments) THEN RETRY_CURRENT_STEP
    ELSE IF ContainsAny(msg, ScreenKeywordFragments) THEN REANALYZE_SCREEN
    ELSE IF ContainsAny(msg, AppKeywordFragments) THEN REANALYZE_SCREEN
    ELSE REANALYZE_SCREEN

\* analyze_error_and_get_strategy returns a dict; its "type" is what the
\* handler and the edge read.  An absent message is classified as the text
\* "unknown error", which holds no keyword.
analyze_error_and_get_strategy(error_message) ==
    LET msg == IF ~(error_message # <<>>) THEN <<"unknown_error">>
               ELSE error_message IN
    IF ContainsAny(msg, ScreenKeywordFragments) THEN REANALYZE_SCREEN
    ELSE IF ContainsAny(msg, ActionKeywordFragments) THEN RETRY_CURRENT_STEP
    ELSE IF ContainsAny(msg, AppKeywordFragments) THEN REANALYZE_SCREEN
    ELSE REANALYZE_SCREEN

Max(a, b) == IF a >= b THEN a ELSE b

\* error_handler_node with new_retry_count = retry_count
error_handler_node_NoIncrement(s) ==
    IF s.retry_count >= s.max_retries
    THEN [ is_completed |-> TRUE,
           is_success |-> FALSE,
           error_message |->
               <<"task_failed_after_retries">> \o Str(s.error_message) ]
    ELSE LET retry_strategy == analyze_error_and_get_strategy(s.error_message)
             new_retry_count == s.retry_count
             retry_update ==
                 [ retry_count |-> new_retry_count,
                   error_message |-> NoMessage,
                   debug_info |->
                       (new_retry_count :> retry_strategy) @@ s.debug_info ]
         IN  IF retry_strategy = REANALYZE_SCREEN
             THEN retry_update @@
                  [ need_reanalyze |-> TRUE,
                    current_step |-> Max(0, s.current_step - 1) ]
             ELSE retry_update

\* error_handler_node rolling the cursor back without the floor at 0
error_handler_node_NoFloor(s) ==
    IF s.retry_count >= s.max_retries
    THEN [ is_completed |-> TRUE,
           is_success |-> FALSE,
           error_message |->
               <<"task_failed_after_retries">> \o Str(s.error_message) ]
    ELSE LET retry_strategy == analyze_error_and_get_strategy(s.error_message)
             new_retry_count == s.retry_count + 1
             retry_update ==
                 [ retry_count |-> new_retry_count,
                   error_message |-> NoMessage,
                   debug_info |->
                       (new_retry_count :> retry_strategy) @@ s.debug_info ]
         IN  IF retry_strategy = REANALYZE_SCREEN
             THEN retry_update @@
                  [ need_reanalyze |-> TRUE,
                    current_step |-> s.current_step - 1 ]
             ELSE retry_update

\* error_handler_node comparing retry_count > max_retries
error_handler_node_OffByOne(s) ==
    IF s.retry_count > s.max_retries
    THEN [ is_completed |-> TRUE,
           is_success |-> FALSE,
           error_message |->
               <<"task_failed_after_retries">> \o Str(s.error_message) ]
    ELSE LET retry_strategy == analyze_error_and_get_strategy(s.error_message)
             new_retry_count == s.retry_count + 1
             retry_update ==
                 [ retry_count |-> new_retry_count,
                   error_message |-> NoMessage,
                   debug_info |->
                       (new_retry_count :> retry_strategy) @@ s.debug_info ]
         IN  IF retry_strategy = REANALYZE_SCREEN
             THEN retry_update @@
                  [ need_reanalyze |-> TRUE,
                    current_step |-> Max(0, s.current_step - 1) ]
             ELSE retry_update

\* error_handler_node rolling the cursor back on every strategy
error_handler_node_AlwaysRollback(s) ==
    IF s.retry_count >= s.max_retries
    THEN [ is_completed |-> TRUE,
           is_success |-> FALSE,
           error_message |->
               <<"task_failed_after_retries">> \o Str(s.error_message) ]
    ELSE LET retry_strategy == analyze_error_and_get_strategy(s.error_message)
             new_retry_count == s.retry_count + 1
             retry_update ==
                 [ retry_count |-> new_retry_count,
                   error_message |-> NoMessage,
                   debug_info |->
                       (new_retry_count :> retry_strategy) @@ s.debug_info ]
         IN  IF retry_strategy = REANALYZE_SCREEN
             THEN retry_update @@
                  [ need_reanalyze |-> TRUE,
                    current_step |-> Max(0, s.current_step - 1) ]
             ELSE retry_update @@
                  [ current_step |-> Max(0, s.current_step - 1) ]

\* error_handler_node leaving error_message as it is when it retries
error_handler_node_KeepsError(s) ==
    IF s.retry_count >= s.max_retries
    THEN [ is_completed |-> TRUE,
           is_success |-> FALSE,
           error_message |->
               <<"task_failed_after_retries">> \o Str(s.error_message) ]
    ELSE LET retry_strategy == analyze_error_and_get_strategy(s.error_message)
             new_retry_count == s.retry_count + 1
             retry_update ==
                 [ retry_count |-> new_retry_count,
                   error_message |-> s.error_message,
                   debug_info |->
                       (new_retry_count :> retry_strategy) @@ s.debug_info ]
         IN  IF retry_strategy = REANALYZE_SCREEN
             THEN retry_update @@
                  [ need_reanalyze |-> TRUE,
                    current_step |-> Max(0, s.current_step - 1) ]
             ELSE retry_update

error_handler_node(s) ==
    IF s.retry_count >= s.max_retries
    THEN [ is_completed |-> TRUE,
           is_success |-> FALSE,
           error_message |->
               <<"task_failed_after_retries">> \o Str(s.error_message) ]
    ELSE LET retry_strategy == analyze_error_and_get_strategy(s.error_message)
             new_retry_count == s.retry_count + 1
             retry_update ==
                 [ retry_count |-> new_retry_count,
                   error_message |-> NoMessage,
                   debug_info |->
                       (new_retry_count :> retry_strategy) @@ s.debug_info ]
         IN  IF retry_strategy = REANALYZE_SCREEN
             THEN retry_update @@
                  [ need_reanalyze |-> TRUE,
                    current_step |-> Max(0, s.current_step - 1) ]
             ELSE retry_update

----------------------------------------------------------------------------
(* edges.py *)

\* Python truthiness of an optional message / list
Truthy(x) == x # <<>>

\* should_continue_after_analyzer without the test of task_type
should_continue_after_analyzer_NoUnknownCheck(s) ==
    IF Truthy(s.error_message) THEN END
    ELSE IF ~Truthy(s.execution_plan) THEN END
    ELSE SCREEN_CAPTURE

\* should_continue_after_analyzer sending an analysis error to the handler
should_continue_after_analyzer_ErrorToRecover(s) ==
    IF Truthy(s.error_message) THEN ERROR_HANDLER
    ELSE IF ~Truthy(s.execution_plan) THEN END
    ELSE IF s.task_type = "unknown" THEN END
    ELSE SCREEN_CAPTURE

should_continue_after_analyzer(s) ==
    IF Truthy(s.error_message) THEN END
    ELSE IF ~Truthy(s.execution_plan) THEN END
    ELSE IF s.task_type = "unknown" THEN END
    ELSE SCREEN_CAPTURE

\* state.get('screen_analysis', {}) returns the stored value: the key is in
\* the context from create_initial_state on, with value None until
\* screen_analyzer_node sets it.  None.get raises AttributeError, which the
\* except clause at line 82 turns into ERROR_HANDLER.
should_continue_after_capture(s) ==
    IF Truthy(s.error_message) THEN ERROR_HANDLER
    ELSE IF s.screen_analysis = <<>> THEN ERROR_HANDLER
    ELSE IF s.screen_analysis[1].screenshot_path \in {NoKey, None, ""}
         THEN ERROR_HANDLER
    ELSE SCREEN_ANALYZER

should_continue_after_screen_analysis(s) ==
    IF Truthy(s.error_message) THEN ERROR_HANDLER
    ELSE IF s.screen_analysis = <<>> THEN ERROR_HANDLER
    ELSE IF ~Truthy(s.screen_analysis[1].target_elements) THEN ERROR_HANDLER
    ELSE ACTION_EXECUTOR

\* should_continue_after_execution without the test of error_message
should_continue_after_execution_NoErrorCheck(s) ==
    IF ~Truthy(s.execution_results) THEN ERROR_HANDLER
    ELSE RESULT_VALIDATOR

should_continue_after_execution(s) ==
    IF Truthy(s.error_message) THEN ERROR_HANDLER
    ELSE IF ~Truthy(s.execution_results) THEN ERROR_HANDLER
    ELSE RESULT_VALIDATOR

\* should_continue_after_validation going on to the next action without a
\* new capture when need_reanalyze is not set
should_continue_after_validation_SkipObserve(s) ==
    IF s.is_completed THEN END
    ELSE IF Truthy(s.error_message) THEN ERROR_HANDLER
    ELSE IF s.execution_plan = NoList THEN ERROR_HANDLER
    ELSE IF s.current_step >= Len(s.execution_plan) THEN END
    ELSE IF s.need_reanalyze THEN SCREEN_CAPTURE
    ELSE ACTION_EXECUTOR

\* len(None) raises TypeError when the plan is unset: ERROR_HANDLER.
should_continue_after_validation(s) ==
    IF s.is_completed THEN END
    ELSE IF Truthy(s.error_message) THEN ERROR_HANDLER
    ELSE IF s.execution_plan = NoList THEN ERROR_HANDLER
    ELSE IF s.current_step >= Len(s.execution_plan) THEN END
    ELSE IF s.need_reanalyze THEN SCREEN_CAPTURE
    ELSE SCREEN_CAPTURE

\* should_continue_after_error_handling starting the analysis over on the
\* reanalyze strategy
should_continue_after_error_handling_Restart(s) ==
    IF s.is_completed THEN END
    ELSE IF s.retry_count >= s.max_retries THEN END
    ELSE IF s.retry_count \in DOMAIN s.debug_info
         THEN LET strategy_type == s.debug_info[s.retry_count] IN
              IF strategy_type = REANALYZE_SCREEN THEN COMMAND_ANALYZER
              ELSE IF strategy_type = RETRY_CURRENT_STEP THEN ACTION_EXECUTOR
              ELSE SCREEN_CAPTURE
    ELSE SCREEN_CAPTURE

should_continue_after_error_handling(s) ==
    IF s.is_completed THEN END
    ELSE IF s.retry_count >= s.max_retries THEN END
    ELSE IF s.retry_count \in DOMAIN s.debug_info
         THEN LET strategy_type == s.debug_info[s.retry_count] IN
              IF strategy_type = REANALYZE_SCREEN THEN SCREEN_CAPTURE
              ELSE IF strategy_type = RETRY_CURRENT_STEP THEN ACTION_EXECUTOR
              ELSE SCREEN_CAPTURE
    ELSE SCREEN_CAPTURE

----------------------------------------------------------------------------
(* services/action_service.py: ActionService *)

\* The service is a record: is_running, settings.safety.forbidden_areas,
\* action_history, the input it has injected into the desktop so far, what
\* its latest call gave its caller ("True", "False", "None", or
\* "RuntimeError" when the call raised), and now, the number of calls made
\* on it, which stands for time.time().  A text is a sequence of characters.

\* settings.hammerspoon.safety_margin, in pixels
safety_margin == 10

\* the size of the screen read by start(), here the size _get_screen_size
\* falls back to
screen_width == 1920

screen_height == 1080

\* _record_action: the length the history may not exceed, and the length it
\* is cut to
HistoryLimit == 1000

HistoryKept == 500

\* type_text records the first 50 characters of the text
RecordedChars == 50

NewService(forbidden_areas) ==
    [ is_running |-> FALSE,
      forbidden_areas |-> forbidden_areas,
      action_history |-> <<>>,
      injected |-> <<>>,
      returned |-> "None",
      now |-> 0 ]

InArea(area, x, y) ==
    /\ area.x <= x /\ x <= area.x + area.width
    /\ area.y <= y /\ y <= area.y + area.height

\* _validate_coordinates without the test of the forbidden areas
validate_coordinates_NoAreas(sv, x, y) ==
    ~ \/ x < safety_margin \/ x > screen_width - safety_margin
      \/ y < safety_margin \/ y > screen_height - safety_margin

validate_coordinates(sv, x, y) ==
    IF \/ x < safety_margin \/ x > screen_width - safety_margin
       \/ y < safety_margin \/ y > screen_height - safety_margin
    THEN FALSE
    ELSE \A i \in 1..Len(sv.forbidden_areas) :
             ~InArea(sv.forbidden_areas[i], x, y)

ActionRecord(timestamp, action_type, params, success) ==
    [ timestamp |-> timestamp, type |-> action_type,
      params |-> params, success |-> success ]

\* _record_action cutting the history to its oldest records
record_action_KeepsOldest(sv, action_type, params, success) ==
    LET appended == Append(sv.action_history,
                           ActionRecord(sv.now, action_type, params, success))
    IN  IF Len(appended) > HistoryLimit
        THEN SubSeq(appended, 1, HistoryKept)
        ELSE appended

\* action_history after _record_action: the record is appended, and a
\* history longer than HistoryLimit is cut to its last HistoryKept records
record_action(sv, action_type, params, success) ==
    LET appended == Append(sv.action_history,
                           ActionRecord(sv.now, action_type, params, success))
    IN  IF Len(appended) > HistoryLimit
        THEN SubSeq(appended, Len(appended) - HistoryKept + 1, Len(appended))
        ELSE appended

\* what the desktop does with an input handed to Hammerspoon or PyAutoGUI:
\* it is injected and the helper returns True, the helper returns False, or
\* the helper raises
InputOutcomes == {"done", "failed", "raised"}

Called(sv) == [sv EXCEPT !.now = sv.now + 1]

start(sv) ==
    [Called(sv) EXCEPT !.is_running = TRUE, !.returned = "None"]

stop(sv) ==
    [Called(sv) EXCEPT !.is_running = FALSE, !.returned = "None"]

click_at(sv, x, y, outcome) ==
    IF ~sv.is_running
    THEN [Called(sv) EXCEPT !.returned = "RuntimeError"]
    ELSE IF ~validate_coordinates(sv, x, y)
    THEN [Called(sv) EXCEPT
            !.action_history =
                record_action(sv, "click",
                              [x |-> x, y |-> y, button |-> "left"], FALSE),
            !.returned = "False"]
    ELSE IF outcome = "raised"
    THEN [Called(sv) EXCEPT
            !.action_history =
                record_action(sv, "click",
                              [x |-> x, y |-> y, button |-> "left"], FALSE),
            !.returned = "False"]
    ELSE [Called(sv) EXCEPT
            !.injected =
                IF outcome = "done"
                THEN Append(sv.injected, [type |-> "click", x |-> x, y |-> y])
                ELSE sv.injected,
            !.action_history =
                record_action(sv, "click",
                              [x |-> x, y |-> y, button |-> "left",
                               double |-> "False"],
                              outcome = "done"),
            !.returned = IF outcome = "done" THEN "True" ELSE "False"]

TypeParams(text) ==
    [ text |-> SubSeq(text, 1, IF Len(text) < RecordedChars THEN Len(text)
                               ELSE RecordedChars),
      length |-> Len(text) ]

type_text(sv, text, outcome) ==
    IF ~sv.is_running
    THEN [Called(sv) EXCEPT !.returned = "RuntimeError"]
    ELSE IF text = <<>>
    THEN [Called(sv) EXCEPT !.returned = "False"]
    ELSE [Called(sv) EXCEPT
            !.injected =
                IF outcome = "done"
                THEN Append(sv.injected, [type |-> "type", text |-> text])
                ELSE sv.injected,
            !.action_history =
                record_action(sv, "type", TypeParams(text), outcome = "done"),
            !.returned = IF outcome = "done" THEN "True" ELSE "False"]

open_application(sv, app_name, outcome) ==
    IF ~sv.is_running
    THEN [Called(sv) EXCEPT !.returned = "RuntimeError"]
    ELSE [Called(sv) EXCEPT
            !.injected =
                IF outcome = "done"
                THEN Append(sv.injected,
                            [type |-> "open_app", app_name |-> app_name])
                ELSE sv.injected,
            !.action_history =
                record_action(sv, "open_app", [app_name |-> app_name],
                              outcome = "done"),
            !.returned = IF outcome = "done" THEN "True" ELSE "False"]

----------------------------------------------------------------------------
(* graph.py: the session *)

\* The checkpointer keeps one snapshot of the context per step, the first
\* being the input of the run (get_state_history).  Of that history the
\* model keeps what the properties read: the first checkpoint, the set of
\* nodes that wrote one, the node that wrote the latest, and whether the
\* checkpoints written by the capture node carry an error.
START == "__start__"

\* What run / arun (and process_command, which hands it on) gave the caller,
\* of the returned dict the keys the callers read.  NoResult while the call
\* has not returned.
NoResult ==
    [ outcome |-> "running", error_message |-> NoMessage,
      is_completed |-> FALSE, is_success |-> FALSE ]

Returned(d) ==
    [ outcome |-> "returned", error_message |-> d.error_message,
      is_completed |-> d.is_completed, is_success |-> d.is_success ]

\* run / arun: the handler of an Exception raised by invoke / ainvoke
GraphFailed_Reraises(e) ==
    [ outcome |-> "raised", error_message |-> <<e>>,
      is_completed |-> FALSE, is_success |-> FALSE ]

GraphFailed(e) ==
    Returned([ error_message |-> <<"graph_execution_failed", e>>,
               is_completed |-> TRUE, is_success |-> FALSE ])

\* process_command on an agent whose graph is None
GraphNotInitialized ==
    Returned([ error_message |-> <<"graph_not_initialized">>,
               is_completed |-> TRUE, is_success |-> FALSE ])

Checkpoint(s) ==
    [ current_step |-> s.current_step,
      retry_count |-> s.retry_count,
      results |-> Len(s.execution_results),
      is_completed |-> s.is_completed,
      error_message |-> s.error_message ]

\* "none": no capture yet; "ok": none failed; "failed": all failed;
\* "mixed": some failed, some did not
CaptureLog(log, n, s) ==
    IF n # SCREEN_CAPTURE THEN log
    ELSE LET this == IF s.error_message = NoMessage THEN "ok" ELSE "failed"
         IN  IF log \in {"none", this} THEN this ELSE "mixed"

\* the step of node n, leaving context s, is written to the history
Checkpointed(n, s) ==
    /\ visited' = visited \cup {n}
    /\ last' = n
    /\ captures' = CaptureLog(captures, n, s)
    /\ UNCHANGED <<entry, first, sessions, files, clock, cancelled,
                   answer, service>>

StartOfHistory ==
    /\ first = Checkpoint(state)
    /\ visited = {}
    /\ last = START
    /\ captures = "none"

RunInit ==
    /\ \E max_retries \in 0..MaxRetriesBound :
           state = create_initial_state(max_retries)
    /\ node = COMMAND_ANALYZER
    /\ StartOfHistory
    /\ entry = "run"

\* A context in the middle of a session, as the handlers of earlier cycles
\* leave it: the plan of some analysis, the cursor somewhere in it, one
\* result per step the cursor has passed, some retries used.
FailureOf(step) ==
    LET err == ActionError(step, <<>>, "false") IN
        IF err = NoMessage THEN <<"action_failed">> ELSE err

ResultsOf(plan, current_step, pattern) ==
    [ i \in 1..current_step |->
        IF pattern = "all_ok" \/ (pattern = "last_failed" /\ i < current_step)
        THEN ExecutionResult(plan[i].step_id, TRUE, NoMessage)
        ELSE ExecutionResult(plan[i].step_id, FALSE, FailureOf(plan[i])) ]

NodeEntryInfos ==
    { ti \in TaskInfos :
        /\ ti.task_type \in {"click", "type", "scroll", "open_app", "analyze"}
        /\ ti.task_type = "click" => ti.target_description = "ok"
        /\ ti.task_type = "scroll" => ti.scroll_direction = "down"
        /\ ti.task_type = "open_app" => ti.app_name = "Calculator" }

\* the observations a mid-session context may hold: one reply that follows
\* the prompt's schema and one that also carries the keys the edges look up
NodeEntryAnalyses ==
    { sa \in ScreenAnalyses :
        Len(sa.ui_elements) > 1 }

NodeEntryErrors(results) ==
    { NoMessage, <<"screen_capture_failed", "screenshot_failed">> }
    \cup { results[i].error_message : i \in { Len(results) } \cap DOMAIN results }

MidSession(task_info, max_retries, retry_count, current_step, pattern, error_message, completed, observed) ==
    LET plan == create_execution_plan(task_info)
        base == create_initial_state(max_retries)
        s0 == [ base EXCEPT
                  !.task_type = task_info.task_type,
                  !.execution_plan = plan,
                  !.current_step = current_step,
                  !.execution_results = ResultsOf(plan, current_step, pattern),
                  !.retry_count = retry_count,
                  !.debug_info = [i \in 1..retry_count |-> REANALYZE_SCREEN],
                  !.error_message = error_message,
                  !.is_completed = completed # "no",
                  !.is_success = completed = "success",
                  !.screenshot_path = IF observed = <<>> THEN None
                                      ELSE "shot.png" ]
    IN  IF observed = <<>> THEN s0
        ELSE [ s0 EXCEPT
                 !.screen_analysis = observed,
                 !.ui_elements = observed[1].ui_elements,
                 !.target_elements =
                     IF TargetIsNone(s0) THEN <<>>
                     ELSE identify_target_elements(observed[1].ui_elements, s0) ]

\* A node function invoked on such a context, the session then following
\* the conditional edges.  The analysis node is entered only on a context no
\* action has touched.
NodeInit ==
    /\ \E task_info \in NodeEntryInfos,
          max_retries \in 0..MaxRetriesBound,
          pattern \in {"all_ok", "last_failed"},
          completed \in {"no", "success", "failure"},
          observed \in {<<>>} \cup { <<sa>> : sa \in NodeEntryAnalyses } :
         \E retry_count \in 0..max_retries,
            current_step \in 0..Len(create_execution_plan(task_info)) :
           \E error_message \in NodeEntryErrors(
                  ResultsOf(create_execution_plan(task_info), current_step, pattern)) :
               state = MidSession(task_info, max_retries, retry_count,
                                  current_step, pattern, error_message,
                                  completed, observed)
    /\ node \in Nodes
    /\ node = COMMAND_ANALYZER =>
           state.current_step = 0 /\ state.execution_results = <<>>
    /\ StartOfHistory
    /\ entry = "node"

\* one session on its own thread: no other session, nothing written to the
\* screenshot directory by another one, no request to cancel
SingleSession ==
    /\ sessions = <<>>
    /\ files = <<>>
    /\ clock = 0
    /\ cancelled = FALSE
    /\ answer = NoResult
    /\ service = NewService(<<>>)

Init == (RunInit \/ NodeInit) /\ SingleSession

Analyze ==
    /\ node = COMMAND_ANALYZER
    /\ \E reply \in AnalysisReplies :
           LET s1 == Merge(state, command_analyzer_node(state, reply)) IN
               /\ state' = s1
               /\ node' = should_continue_after_analyzer(s1)
    /\ Checkpointed(COMMAND_ANALYZER, state')

Observe ==
    /\ node = SCREEN_CAPTURE
    /\ \E outcome \in CaptureOutcomes :
           LET s1 == Merge(state, screen_capture_node(state, outcome)) IN
               /\ state' = s1
               /\ node' = should_continue_after_capture(s1)
    /\ Checkpointed(SCREEN_CAPTURE, state')

Recover ==
    /\ node = ERROR_HANDLER
    /\ LET s1 == Merge(state, error_handler_node(state)) IN
           /\ state' = s1
           /\ node' = should_continue_after_error_handling(s1)
    /\ Checkpointed(ERROR_HANDLER, state')

Interpret ==
    /\ node = SCREEN_ANALYZER
    /\ \E outcome \in AnalysisOutcomes :
           LET s1 == Merge(state, screen_analyzer_node(state, outcome)) IN
               /\ state' = s1
               /\ node' = should_continue_after_screen_analysis(s1)
    /\ Checkpointed(SCREEN_ANALYZER, state')

Act ==
    /\ node = ACTION_EXECUTOR
    /\ \E outcome \in ActionOutcomes :
           LET s1 == Merge(state, action_executor_node(state, outcome)) IN
               /\ state' = s1
               /\ node' = should_continue_after_execution(s1)
    /\ Checkpointed(ACTION_EXECUTOR, state')

Validate ==
    /\ node = RESULT_VALIDATOR
    /\ LET s1 == Merge(state, result_validator_node(state)) IN
           /\ state' = s1
           /\ node' = should_continue_after_validation(s1)
    /\ Checkpointed(RESULT_VALIDATOR, state')

Next == Analyze \/ Observe \/ Interpret \/ Act \/ Validate \/ Recover

Spec == Init /\ [][Next]_vars

\* The steps are taken one at a time and a node that is due is run: the
\* graph's loop does not stop between two steps.
FairSpec == Spec /\ WF_vars(Next)

----------------------------------------------------------------------------
(* graph.py: sessions on several threads, one thread id each *)

MaxClock == 1

\* create_thread_config: each run has a thread id of its own
SessionIds == {"thread_1", "thread_2"}

\* Settings.get_screenshot_path: the file name is the time of the capture to
\* the second, in the one screenshot directory of the settings
ScreenshotPath(t) == "screenshot_" \o ToString(t) \o ".png"

ScreenshotPaths == { ScreenshotPath(t) : t \in 0..MaxClock }

NoOwner == "nobody"

\* the context of a session whose command was analysed as a click on "ok"
\* and whose capture at time t succeeded
Captured(max_retries, t) ==
    LET s0 == create_initial_state(max_retries)
        reply == [kind |-> "json",
                  info |-> TaskInfo("click", "ok", NoKey, NoKey, NoKey)]
        s1 == Merge(s0, command_analyzer_node(s0, reply))
        shot == [kind |-> "ok", path |-> ScreenshotPath(t)]
    IN  Merge(s1, screen_capture_node(s1, shot))

Session(s, n) == [state |-> s, node |-> n]

\* the contexts and cursors a step of node n can leave, from context s
StepResults(n, s) ==
    CASE n = COMMAND_ANALYZER ->
           { LET s1 == Merge(s, command_analyzer_node(s, reply))
             IN  Session(s1, should_continue_after_analyzer(s1)) :
               reply \in AnalysisReplies }
      [] n = SCREEN_ANALYZER ->
           { LET s1 == Merge(s, screen_analyzer_node(s, outcome))
             IN  Session(s1, should_continue_after_screen_analysis(s1)) :
               outcome \in AnalysisOutcomes }
      [] n = ACTION_EXECUTOR ->
           { LET s1 == Merge(s, action_executor_node(s, outcome))
             IN  Session(s1, should_continue_after_execution(s1)) :
               outcome \in ActionOutcomes }
      [] n = RESULT_VALIDATOR ->
           { LET s1 == Merge(s, result_validator_node(s))
             IN  Session(s1, should_continue_after_validation(s1)) }
      [] n = ERROR_HANDLER ->
           { LET s1 == Merge(s, error_handler_node(s))
             IN  Session(s1, should_continue_after_error_handling(s1)) }
      [] OTHER -> {}

\* Two runs on two threads.  A session starts at the analysis, or - as the
\* node functions are entered elsewhere in this model - stands after its
\* own successful capture, the interpretation due.
ConcInit ==
    /\ clock = 0
    /\ \E max_retries \in 0..1, captured \in SUBSET {"thread_1"} :
         /\ sessions =
              [ sid \in SessionIds |->
                  IF sid \in captured
                  THEN Session(Captured(max_retries, 0), SCREEN_ANALYZER)
                  ELSE Session(create_initial_state(max_retries),
                               COMMAND_ANALYZER) ]
         /\ files =
              [ p \in ScreenshotPaths |->
                  IF p = ScreenshotPath(0) /\ captured # {}
                  THEN "thread_1" ELSE NoOwner ]
    /\ state = create_initial_state(0)
    /\ node = END
    /\ StartOfHistory
    /\ entry = "threads"
    /\ cancelled = FALSE
    /\ answer = NoResult
    /\ service = NewService(<<>>)

Tick ==
    /\ clock < MaxClock
    /\ clock' = clock + 1
    /\ UNCHANGED <<state, node, entry, first, visited, last, captures,
                   sessions, files, cancelled, answer, service>>

\* the capture step of session sid: capture_screen writes the file named by
\* the clock and returns its path
ConcObserve(sid) ==
    /\ sessions[sid].node = SCREEN_CAPTURE
    /\ \E kind \in {"ok", "raise"} :
         LET outcome == [kind |-> kind,
                         path |-> IF kind = "ok" THEN ScreenshotPath(clock)
                                  ELSE None]
             s1 == Merge(sessions[sid].state,
                         screen_capture_node(sessions[sid].state, outcome))
         IN  /\ sessions' = [sessions EXCEPT
                   ![sid] = Session(s1, should_continue_after_capture(s1))]
             /\ files' = IF kind = "ok"
                         THEN [files EXCEPT ![outcome.path] = sid]
                         ELSE files
    /\ UNCHANGED <<state, node, entry, first, visited, last, captures,
                   clock, cancelled, answer, service>>

\* any other step of session sid
ConcStep(sid) ==
    /\ \E result \in StepResults(sessions[sid].node, sessions[sid].state) :
           sessions' = [sessions EXCEPT ![sid] = result]
    /\ UNCHANGED <<state, node, entry, first, visited, last, captures,
                   files, clock, cancelled, answer, service>>

ConcNext ==
    \/ Tick
    \/ \E sid \in SessionIds : ConcObserve(sid)
    \/ \E sid \in SessionIds : ConcStep(sid)

ConcSpec == ConcInit /\ [][ConcNext]_vars

----------------------------------------------------------------------------
(* A session its caller asks to cancel *)

\* The request to cancel a session that has not ended.  run / arun take the
\* command and the thread id and return when the graph has ended: nothing in
\* graph.py, edges.py or the nodes receives or reads such a request, so the
\* request changes nothing the graph looks at.
Cancel ==
    /\ ~cancelled
    /\ node # END
    /\ cancelled' = TRUE
    /\ UNCHANGED <<state, node, entry, first, visited, last, captures,
                   sessions, files, clock, answer, service>>

CancelNext == Next \/ Cancel

CancelSpec == Init /\ [][CancelNext]_vars

----------------------------------------------------------------------------
(* graph.py, main_langgraph.py: the call that runs a session *)

\* str(e) of an Exception raised by compiled_graph.invoke / ainvoke, such as
\* the recursion limit of the graph being reached or the checkpointer failing
GraphErrors == {"recursion_limit", "checkpointer_error"}

GraphUntouched ==
    UNCHANGED <<state, node, entry, first, visited, last, captures,
                sessions, files, clock, cancelled>>

\* an agent whose initialize_graph was never called: graph is None, no
\* context is ever created (state is a placeholder) and no node is due
NoGraphInit ==
    /\ state = create_initial_state(0)
    /\ node = START
    /\ StartOfHistory
    /\ entry = "no_graph"
    /\ SingleSession

CallInit == Init \/ NoGraphInit

\* a step of the graph inside invoke
GraphStep ==
    /\ entry # "no_graph"
    /\ answer = NoResult
    /\ Next

\* invoke raises an Exception before the graph has ended
GraphRaises ==
    /\ entry # "no_graph"
    /\ answer = NoResult
    /\ node # END
    /\ \E e \in GraphErrors : answer' = GraphFailed(e)
    /\ GraphUntouched
    /\ UNCHANGED service

\* invoke returns the final context
GraphReturns ==
    /\ entry # "no_graph"
    /\ answer = NoResult
    /\ node = END
    /\ answer' = Returned(state)
    /\ GraphUntouched
    /\ UNCHANGED service

ProcessCommandNoGraph ==
    /\ entry = "no_graph"
    /\ answer = NoResult
    /\ answer' = GraphNotInitialized
    /\ GraphUntouched
    /\ UNCHANGED service

CallNext == GraphStep \/ GraphRaises \/ GraphReturns \/ ProcessCommandNoGraph

CallSpec == CallInit /\ [][CallNext]_vars

----------------------------------------------------------------------------
(* services/action_service.py: calls on one ActionService *)

\* the coordinates the calls are made with: in the left margin, in the
\* bottom margin, right of the screen, left of the screen, inside the
\* forbidden area of ForbiddenAreaSettings, and the two corners of the
\* region validation accepts
Points ==
    { <<5, 500>>, <<500, 1075>>, <<2000, 500>>, <<-3, 500>>, <<120, 120>>,
      <<10, 10>>, <<1910, 1070>> }

\* settings.safety.forbidden_areas: the default, and one area
ForbiddenAreaSettings ==
    { <<>>, << [x |-> 100, y |-> 100, width |-> 50, height |-> 50] >> }

Texts == { <<>>, <<"h", "i">> }

AppNames == { "Calculator" }

GraphIdle ==
    /\ state = create_initial_state(0)
    /\ node = END
    /\ StartOfHistory
    /\ entry = "service"
    /\ sessions = <<>>
    /\ files = <<>>
    /\ clock = 0
    /\ cancelled = FALSE
    /\ answer = NoResult

\* the service as ActionService(settings) constructs it
ServiceInit ==
    /\ GraphIdle
    /\ \E forbidden_areas \in ForbiddenAreaSettings :
           service = NewService(forbidden_areas)

Start(limit) ==
    /\ service.now < limit
    /\ service' = start(service)
    /\ GraphUntouched
    /\ UNCHANGED answer

Stop(limit) ==
    /\ service.now < limit
    /\ service' = stop(service)
    /\ GraphUntouched
    /\ UNCHANGED answer

ClickAt(limit) ==
    /\ service.now < limit
    /\ \E p \in Points, outcome \in InputOutcomes :
           service' = click_at(service, p[1], p[2], outcome)
    /\ GraphUntouched
    /\ UNCHANGED answer

TypeText(limit) ==
    /\ service.now < limit
    /\ \E text \in Texts, outcome \in InputOutcomes :
           service' = type_text(service, text, outcome)
    /\ GraphUntouched
    /\ UNCHANGED answer

OpenApplication(limit) ==
    /\ service.now < limit
    /\ \E app_name \in AppNames, outcome \in InputOutcomes :
           service' = open_application(service, app_name, outcome)
    /\ GraphUntouched
    /\ UNCHANGED answer

ServiceCalls(limit) ==
    \/ Start(limit)
    \/ Stop(limit)
    \/ ClickAt(limit)
    \/ TypeText(limit)
    \/ OpenApplication(limit)

ServiceNext == ServiceCalls(MaxCalls)

ServiceSpec == ServiceInit /\ [][ServiceNext]_vars

\* A running service that has recorded n actions before: n clicks, the
\* latest at time -1.
Recorded(n) ==
    [ i \in 1..n |->
        ActionRecord(i - n - 1, "click",
                     [x |-> 500, y |-> 500, button |-> "left",
                      double |-> "False"], TRUE) ]

RecordedBefore == { 0, HistoryKept, HistoryLimit - 1, HistoryLimit }

HistoryInit ==
    /\ GraphIdle
    /\ \E n \in RecordedBefore :
           service = [ NewService(<<>>) EXCEPT
                         !.is_running = TRUE,
                         !.action_history = Recorded(n) ]

HistoryNext == ServiceCalls(MaxRecorded)

HistorySpec == HistoryInit /\ [][HistoryNext]_vars

----------------------------------------------------------------------------
(* Properties *)

Finished == node = END
RunSession == entry = "run"

\* the session started on a context no step had touched
CleanStart ==
    /\ first.current_step = 0
    /\ first.retry_count = 0
    /\ first.results = 0
    /\ ~first.is_completed
    /\ first.error_message = NoMessage

AllResultsFailed ==
    \A i \in DOMAIN state.execution_results : ~state.execution_results[i].success
AllResultsSucceeded ==
    \A i \in DOMAIN state.execution_results : state.execution_results[i].success

NoCaptureFailure == captures \in {"none", "ok"}
EveryCaptureFailed == captures = "failed"

\* C1: with max_retries = 3 and no action invocation that succeeded, a run
\* that got past the analysis ends with is_completed = TRUE and
\* is_success = FALSE.
C1_RetryExhaustionEndsCompleted ==
    (RunSession /\ Finished /\ state.max_retries = 3
       /\ ERROR_HANDLER \in visited /\ AllResultsFailed)
    => (state.is_completed /\ ~state.is_success)

\* C2: retry_count is raised at most max_retries times in a session, and
\* with max_retries = 3 a session whose action invocations all failed ends
\* after exactly 3 raises.
C2_ExactlyThreeRecoveries ==
    /\ state.retry_count - first.retry_count <= state.max_retries
    /\ (Finished /\ CleanStart /\ state.max_retries = 3
          /\ state.execution_results # <<>> /\ AllResultsFailed)
       => state.retry_count = 3

\* C3: every session reaches END.
C3_SessionTerminates == <>(node = END)

C3_Witness ==
    /\ Finished
    /\ {ACTION_EXECUTOR, RESULT_VALIDATOR, ERROR_HANDLER} \subseteq visited

\* C4: the cursor stays within the plan: 0 <= current_step <= len(plan),
\* the unset plan counting as length 0.
C4_CursorWithinPlan ==
    /\ 0 <= state.current_step
    /\ state.current_step <= Len(state.execution_plan)

\* the action node moved the cursor to the end of the plan and the error
\* handler then rolled it back
C4_Witness ==
    /\ CleanStart
    /\ ACTION_EXECUTOR \in visited
    /\ last = ERROR_HANDLER
    /\ Len(state.execution_results) = Len(state.execution_plan)
    /\ state.current_step = Len(state.execution_plan) - 1

\* C5: 0 <= retry_count <= max_retries in every context.
C5_RetryCountWithinLimit ==
    /\ 0 <= state.retry_count
    /\ state.retry_count <= state.max_retries

\* the error handler used the whole budget of a session that started at 0
C5_Witness ==
    /\ first.retry_count = 0
    /\ state.max_retries = MaxRetriesBound
    /\ state.retry_count = state.max_retries
    /\ last = ERROR_HANDLER

\* C6: once a step of the session has set is_completed, no further step is
\* taken (no handler runs, no field changes).
C6_CompletedIsFixedPoint ==
    [][ ~(CleanStart /\ state.is_completed) ]_vars

\* C7: a session that ends with is_success = FALSE carries a non-empty
\* error_message; checked on the runs that entered the error handler.
C7_FailureCarriesError ==
    (RunSession /\ Finished /\ ~state.is_success /\ ERROR_HANDLER \in visited)
    => state.error_message # NoMessage

C10_ScenarioC ==
    (RunSession /\ Finished /\ EveryCaptureFailed)
    => /\ ~state.is_success
       /\ \E i \in DOMAIN state.error_message :
              state.error_message[i] = "screen_capture_failed"

\* the plan the analyzer builds for a task type it has no template for
UnknownPlan ==
    create_execution_plan(TaskInfo("unknown", NoKey, NoKey, NoKey, NoKey))

\* C11 as stated (scenario D): a run whose analysis returned task_type
\* "unknown" has gone from the analysis straight to END with
\* is_success = FALSE and its plan is unset or empty.
C11_ScenarioD_NoPlan ==
    (RunSession /\ state.task_type = "unknown")
    => /\ Finished /\ visited = {COMMAND_ANALYZER}
       /\ ~state.is_success
       /\ state.execution_plan = NoList

\* C11 as amended: a run whose analysis returned task_type "unknown" has
\* gone from the analysis straight to END with is_success = FALSE; its plan
\* is the single analyze step, of which nothing was executed.
C11_ScenarioD ==
    (RunSession /\ state.task_type = "unknown")
    => /\ Finished /\ visited = {COMMAND_ANALYZER}
       /\ ~state.is_success
       /\ state.execution_plan = UnknownPlan
       /\ Len(state.execution_plan) = 1
       /\ state.execution_plan[1].action_type = "analyze"
       /\ state.current_step = 0
       /\ state.execution_results = <<>>

C11_Witness ==
    RunSession /\ Finished /\ state.task_type = "unknown"

\* C12: the first step of a run is the analysis, no later step of the run
\* is the analysis again, a run that has ended has taken it, and no step is
\* taken from END.
C12_AnalyzeFirstAndOnce ==
    [][ RunSession =>
          /\ node # END
          /\ (last' = COMMAND_ANALYZER) <=> (last = START)
          /\ node' = END => COMMAND_ANALYZER \in visited' ]_vars

C12_Witness ==
    /\ RunSession /\ Finished
    /\ {COMMAND_ANALYZER, SCREEN_CAPTURE, ERROR_HANDLER} \subseteq visited

\* C13: a capture step of a run that leaves no error and has recorded a
\* screenshot path is followed by the interpretation step; one that leaves
\* an error or no path is followed by the error handler.
C13_CaptureEdge ==
    [][ (RunSession /\ node = SCREEN_CAPTURE) =>
          node' = IF \/ state'.error_message # NoMessage
                     \/ state'.screenshot_path = None
                  THEN ERROR_HANDLER
                  ELSE SCREEN_ANALYZER ]_vars

\* C14: the interpretation step is followed by the error handler when it
\* leaves an error or an empty selection of target elements, and by the
\* action step otherwise.
C14_InterpretEdge ==
    [][ (CleanStart /\ node = SCREEN_ANALYZER) =>
          node' = IF \/ state'.error_message # NoMessage
                     \/ state'.target_elements = NoList
                  THEN ERROR_HANDLER
                  ELSE ACTION_EXECUTOR ]_vars

\* C15: the action step is followed by the error handler when it leaves an
\* error and by the validation step otherwise, and a step that records a
\* failed result leaves an error.
C15_ActEdge ==
    [][ node = ACTION_EXECUTOR =>
          /\ node' = IF state'.error_message # NoMessage
                     THEN ERROR_HANDLER
                     ELSE RESULT_VALIDATOR
          /\ ( /\ Len(state'.execution_results) > Len(state.execution_results)
               /\ ~state'.execution_results[Len(state'.execution_results)].success )
             => state'.error_message # NoMessage ]_vars

\* an action step recorded a failed result and the handler is due
C15_Witness ==
    /\ CleanStart
    /\ last = ACTION_EXECUTOR
    /\ node = ERROR_HANDLER
    /\ state.execution_results # <<>>
    /\ ~state.execution_results[Len(state.execution_results)].success

\* C16: the validation step is followed by END when it leaves
\* is_completed set, else by the error handler when it leaves an error,
\* else by the capture step, whatever need_reanalyze is.
C16_ValidateEdge ==
    [][ node = RESULT_VALIDATOR =>
          node' = IF state'.is_completed THEN END
                  ELSE IF state'.error_message # NoMessage THEN ERROR_HANDLER
                  ELSE SCREEN_CAPTURE ]_vars

\* a validation step sent the session back to the capture with
\* need_reanalyze not set
C16_Witness ==
    /\ last = RESULT_VALIDATOR
    /\ node = SCREEN_CAPTURE
    /\ ~state.need_reanalyze

\* C17: the error handler's step is followed by END exactly when it leaves
\* is_completed set; otherwise by the capture step when the strategy it
\* chose is reanalyze_screen and by the action step when it is
\* retry_current_step.
C17_RecoverEdge ==
    [][ (RunSession /\ node = ERROR_HANDLER) =>
          node' = IF state'.is_completed THEN END
                  ELSE IF state'.debug_info[state'.retry_count] = RETRY_CURRENT_STEP
                       THEN ACTION_EXECUTOR
                  ELSE SCREEN_CAPTURE ]_vars

\* C18: the analysis step is followed by END when it leaves an error, an
\* empty plan or task_type "unknown", and by the capture step otherwise; a
\* session ended by the analysis has not entered the error handler and its
\* retry_count is unchanged.
C18_AnalyzeEdge ==
    [][ node = COMMAND_ANALYZER =>
          /\ node' = IF \/ state'.error_message # NoMessage
                        \/ state'.execution_plan = NoList
                        \/ state'.task_type = "unknown"
                     THEN END
                     ELSE SCREEN_CAPTURE
          /\ node' = END =>
                 /\ ERROR_HANDLER \notin visited'
                 /\ state'.retry_count = first.retry_count
                 /\ RunSession => state'.retry_count = 0 ]_vars

\* a run ended by an analysis that failed
C18_Witness ==
    /\ RunSession /\ Finished
    /\ visited = {COMMAND_ANALYZER}
    /\ state.error_message # NoMessage
    /\ state.execution_plan = NoList

\* C19: in a session started on a fresh context the number of recorded
\* results never exceeds the cursor.
C19_ResultsWithinCursor ==
    CleanStart => Len(state.execution_results) <= state.current_step

\* the strategy chosen by the step just taken, when that step was an error
\* handler step that used a retry
ChoseStrategy(strategy) ==
    /\ node = ERROR_HANDLER
    /\ state'.retry_count = state.retry_count + 1
    /\ state'.debug_info[state'.retry_count] = strategy

\* C20: no step lowers the cursor, except that an error handler step that
\* chose reanalyze_screen sets it to max(0, current_step - 1); an error
\* handler step that chose retry_current_step leaves it as it is.
C20_CursorMonotone ==
    [][ IF ChoseStrategy(REANALYZE_SCREEN)
        THEN state'.current_step = Max(0, state.current_step - 1)
        ELSE /\ state'.current_step >= state.current_step
             /\ node = ERROR_HANDLER => state'.current_step = state.current_step
      ]_vars

\* an error handler step lowered the cursor of a session that had executed
\* an action
C20_Witness ==
    /\ CleanStart
    /\ last = ERROR_HANDLER
    /\ state.execution_results # <<>>
    /\ state.current_step = Len(state.execution_results) - 1
    /\ state.debug_info[state.retry_count] = REANALYZE_SCREEN

\* the position of an element in the list of observed elements
PositionIn(elements, e) ==
    CHOOSE k \in DOMAIN elements : elements[k] = e

\* C21: the selected target elements are observed elements of confidence
\* above 0.7, in descending order of confidence, those of equal confidence
\* in their order of observation.
C21_TargetsOrdered ==
    LET targets == state.target_elements
        observed == state.ui_elements
    IN  /\ \A i \in DOMAIN targets :
              /\ targets[i].confidence > 70
              /\ \E k \in DOMAIN observed : observed[k] = targets[i]
        /\ \A i, j \in DOMAIN targets :
              i < j =>
                /\ targets[i].confidence >= targets[j].confidence
                /\ targets[i].confidence = targets[j].confidence
                   => PositionIn(observed, targets[i])
                          < PositionIn(observed, targets[j])

\* the interpretation step selected two elements of equal confidence and
\* dropped an element of confidence 0.7 or less that matched the step
C21_Witness ==
    /\ last = SCREEN_ANALYZER
    /\ \E i, j \in DOMAIN state.target_elements :
           /\ i < j
           /\ state.target_elements[i].confidence
                  = state.target_elements[j].confidence
    /\ state.target_elements[1].confidence > state.target_elements[2].confidence
    /\ \E k \in DOMAIN state.ui_elements :
           /\ state.ui_elements[k].confidence <= 70
           /\ state.ui_elements[k].element_type \in {"button", "menu_item"}

\* C22: the screenshot a session is about to interpret is the one that
\* session captured: the file at its screenshot_path was last written by
\* the session itself.
C22_InterpretsOwnCapture ==
    \A sid \in DOMAIN sessions :
        sessions[sid].node = SCREEN_ANALYZER
        => files[sessions[sid].state.screenshot_path] = sid

\* C23: once the cancellation of a run has been asked for, the only step
\* the run takes is the one to END, with is_success = FALSE and without
\* running a node.
C23_CancelStopsSession ==
    [][ (RunSession /\ cancelled) =>
          /\ node' = END
          /\ ~state'.is_success
          /\ visited' = visited ]_vars

\* The context with the strategies recorded in debug_info replaced by
\* another strategy: it differs from s in debug_info only.
OtherDebugInfo(s, strategy) ==
    [s EXCEPT !.debug_info = [k \in DOMAIN s.debug_info |-> strategy]]

\* C24: the routing function applied after a node gives the same next node
\* for the context the node left and for any context that differs from it
\* only in debug_info.
C24_RoutingIgnoresDebugInfo ==
    \A strategy \in {REANALYZE_SCREEN, RETRY_CURRENT_STEP} :
        LET other == OtherDebugInfo(state, strategy) IN
        /\ last = COMMAND_ANALYZER =>
               should_continue_after_analyzer(other)
                   = should_continue_after_analyzer(state)
        /\ last = SCREEN_CAPTURE =>
               should_continue_after_capture(other)
                   = should_continue_after_capture(state)
        /\ last = SCREEN_ANALYZER =>
               should_continue_after_screen_analysis(other)
                   = should_continue_after_screen_analysis(state)
        /\ last = ACTION_EXECUTOR =>
               should_continue_after_execution(other)
                   = should_continue_after_execution(state)
        /\ last = RESULT_VALIDATOR =>
               should_continue_after_validation(other)
                   = should_continue_after_validation(state)
        /\ last = ERROR_HANDLER =>
               should_continue_after_error_handling(other)
                   = should_continue_after_error_handling(state)

\* C25: error_handler_node entered with retry_count >= max_retries sets
\* is_completed, clears is_success and leaves retry_count and current_step;
\* entered with retry_count < max_retries it adds one to retry_count and
\* clears error_message.
C25_RecoverEffect ==
    [][ node = ERROR_HANDLER =>
          IF state.retry_count >= state.max_retries
          THEN /\ state'.is_completed
               /\ ~state'.is_success
               /\ state'.retry_count = state.retry_count
               /\ state'.current_step = state.current_step
          ELSE /\ state'.retry_count = state.retry_count + 1
               /\ state'.error_message = NoMessage ]_vars

C25_Witness ==
    /\ last = ERROR_HANDLER
    /\ state.retry_count >= 1
    /\ state.retry_count \in DOMAIN state.debug_info
    /\ state.error_message = NoMessage
    /\ ~state.is_completed

\* C26: the strategy error_handler_node records for a retry is
\* reanalyze_screen when the message holds a screen keyword, whatever else
\* it holds; else retry_current_step when it holds an action keyword; else
\* reanalyze_screen, with an application keyword, with no keyword and with
\* no message.
C26_StrategyByCategory ==
    [][ (node = ERROR_HANDLER /\ state.retry_count < state.max_retries) =>
          LET msg == state.error_message
              chosen == state'.debug_info[state'.retry_count]
              screen == ContainsAny(msg, ScreenKeywordFragments)
              action == ContainsAny(msg, ActionKeywordFragments)
              app == ContainsAny(msg, AppKeywordFragments)
          IN  /\ screen => chosen = REANALYZE_SCREEN
              /\ (~screen /\ action) => chosen = RETRY_CURRENT_STEP
              /\ (~screen /\ ~action /\ app) => chosen = REANALYZE_SCREEN
              /\ (~screen /\ ~action /\ ~app) => chosen = REANALYZE_SCREEN
              /\ msg = NoMessage => chosen = REANALYZE_SCREEN ]_vars

\* The handler, entered on a message that holds both a screen keyword and an
\* action keyword, has recorded reanalyze_screen.
C26_Witness ==
    /\ entry = "node"
    /\ visited = {ERROR_HANDLER}
    /\ ContainsAny(first.error_message, ScreenKeywordFragments)
    /\ ContainsAny(first.error_message, ActionKeywordFragments)
    /\ state.retry_count = first.retry_count + 1
    /\ state.debug_info[state.retry_count] = REANALYZE_SCREEN

\* C27: an error handler step that chose retry_current_step leaves
\* current_step, target_elements and need_reanalyze as they were, and the
\* node that runs next is the action executor.
C27_RetryCurrentStepFrame ==
    [][ (CleanStart /\ ChoseStrategy(RETRY_CURRENT_STEP)) =>
          /\ state'.current_step = state.current_step
          /\ state'.target_elements = state.target_elements
          /\ state'.need_reanalyze = state.need_reanalyze
          /\ node' = ACTION_EXECUTOR ]_vars

\* C28: when the error handler has just chosen retry_current_step for a
\* failed action, the step at the cursor - the one the action executor
\* runs next - is the step that failed.
C28_RetryRunsFailedStep ==
    LET results == state.execution_results
        failed == results[Len(results)]
        plan == state.execution_plan
    IN  ( /\ CleanStart
          /\ node = ACTION_EXECUTOR
          /\ last = ERROR_HANDLER
          /\ state.retry_count \in DOMAIN state.debug_info
          /\ state.debug_info[state.retry_count] = RETRY_CURRENT_STEP
          /\ results # <<>>
          /\ ~failed.success )
        => /\ state.current_step < Len(plan)
           /\ plan[state.current_step + 1].step_id = failed.step_id

\* C29: every call of action_executor_node with a plan step at the cursor,
\* in a session started on an untouched context, appends one result to
\* execution_results and adds one to current_step.
C29_ActAppendsAndAdvances ==
    [][ ( /\ CleanStart
          /\ node = ACTION_EXECUTOR
          /\ state.execution_plan # NoList
          /\ state.current_step < Len(state.execution_plan) ) =>
          /\ Len(state'.execution_results) = Len(state.execution_results) + 1
          /\ state'.current_step = state.current_step + 1 ]_vars

\* the step just taken is a call of action_executor_node that executed the
\* plan step at the cursor and appended its result
Executed ==
    /\ node = ACTION_EXECUTOR
    /\ Len(state'.execution_results) = Len(state.execution_results) + 1

ScreenChangingActions == {"click", "open_app", "scroll"}

\* C30 (as stated): after action_executor_node has executed a click,
\* open_app or scroll step, need_reanalyze is set; after a step of another
\* kind it is as it was.
C30_ReanalyzeAfterScreenChange ==
    [][ Executed =>
          LET step == state.execution_plan[state.current_step + 1] IN
          IF step.action_type \in ScreenChangingActions
          THEN state'.need_reanalyze
          ELSE state'.need_reanalyze = state.need_reanalyze ]_vars

\* C30 (amended): after action_executor_node has executed a click, open_app
\* or scroll step with success, need_reanalyze is set; after a failed step,
\* after a step of another kind, and after a call that executes no step,
\* it is as it was.
C30_ReanalyzeAfterSuccessfulScreenChange ==
    [][ node = ACTION_EXECUTOR =>
          IF Executed
          THEN LET step == state.execution_plan[state.current_step + 1]
                   results == state'.execution_results
                   result == results[Len(results)]
               IN  IF /\ step.action_type \in ScreenChangingActions
                      /\ result.success
                   THEN state'.need_reanalyze
                   ELSE state'.need_reanalyze = state.need_reanalyze
          ELSE state'.need_reanalyze = state.need_reanalyze ]_vars

\* the one step of the session so far executed open_app with success and
\* set need_reanalyze
C30_Witness ==
    /\ visited = {ACTION_EXECUTOR}
    /\ state.current_step >= 1
    /\ state.execution_plan[state.current_step].action_type = "open_app"
    /\ Len(state.execution_results) = first.results + 1
    /\ state.execution_results[Len(state.execution_results)].success
    /\ state.need_reanalyze

\* C31: result_validator_node entered with no error_message and the cursor
\* at or past the end of the plan sets is_completed, and sets is_success
\* exactly when every result succeeded; when a result failed its
\* error_message lists the indices (from 0) of the failed results and no
\* others, and when none failed it leaves error_message unset.
C31_ValidateCompletion ==
    [][ ( /\ node = RESULT_VALIDATOR
          /\ state.error_message = NoMessage
          /\ state.execution_plan # NoList
          /\ state.current_step >= Len(state.execution_plan) ) =>
          LET results == state.execution_results
              all_succeeded == \A i \in DOMAIN results : results[i].success
              summary == state'.error_message
          IN  /\ state'.is_completed
              /\ state'.is_success = all_succeeded
              /\ all_succeeded => summary = NoMessage
              /\ ~all_succeeded =>
                   /\ summary # NoMessage
                   /\ \A i \in DOMAIN results :
                        (\E k \in 2..Len(summary) : summary[k] = ToString(i - 1))
                            <=> ~results[i].success ]_vars

\* the validator closed a session whose last result succeeded and an
\* earlier one had failed
C31_Witness ==
    /\ last = RESULT_VALIDATOR
    /\ state.is_completed
    /\ ~state.is_success
    /\ state.execution_results # <<>>
    /\ state.execution_results[Len(state.execution_results)].success
    /\ state.error_message # NoMessage
    /\ state.error_message[1] = "some_steps_failed"

\* C32: every call of action_executor_node with a plan step at the cursor
\* returns a delta that holds a result for the step; the result is a failure
\* with an error message for a click without targets or without x / y, a
\* type without text, a scroll in an unknown direction and an open_app
\* without a name; every failure carries a message; the result of an
\* analyze step is a success.
C32_ActAlwaysRecordsOutcome ==
    [][ ( /\ CleanStart
          /\ node = ACTION_EXECUTOR
          /\ state.execution_plan # NoList
          /\ state.current_step < Len(state.execution_plan) ) =>
          LET step == state.execution_plan[state.current_step + 1]
              targets == state.target_elements
              results == state'.execution_results
              result == results[Len(results)]
              bad_input ==
                  \/ step.action_type = "click" /\ targets = <<>>
                  \/ step.action_type = "click" /\ targets # <<>>
                        /\ ~targets[1].has_xy
                  \/ step.action_type = "type" /\ Get(step, "text", "") = ""
                  \/ step.action_type = "scroll"
                        /\ Get(step, "direction", "down")
                               \notin {"up", "down", "left", "right"}
                  \/ step.action_type = "open_app"
                        /\ Get(step, "app_name", "") = ""
          IN  /\ Len(results) = Len(state.execution_results) + 1
              /\ bad_input => ~result.success
              /\ ~result.success => result.error_message # NoMessage
              /\ step.action_type = "analyze" => result.success ]_vars

\* C33: every target element screen_analyzer_node selects, in a session
\* started on an untouched context with no targets yet, is of a kind
\* the action of the step at the cursor accepts (click: button, link,
\* menu_item; type: input, textarea), has a text that contains the step's
\* target description when the step has one, and has a confidence above 0.7.
C33_TargetsMatchKindAndText ==
    [][ ( /\ CleanStart
          /\ node = SCREEN_ANALYZER
          /\ state.target_elements = <<>>
          /\ state'.error_message = NoMessage
          /\ state'.target_elements # <<>> ) =>
          LET step == state.execution_plan[state.current_step + 1]
              targets == state'.target_elements
          IN  \A i \in DOMAIN targets :
                /\ \/ step.action_type = "click"
                        /\ targets[i].element_type
                               \in {"button", "link", "menu_item"}
                   \/ step.action_type = "type"
                        /\ targets[i].element_type \in {"input", "textarea"}
                /\ step.target \notin {None, ""} =>
                       /\ targets[i].text \notin {None, ""}
                       /\ IsSubstring(Lower(step.target),
                                      Lower(targets[i].text))
                /\ targets[i].confidence > 70 ]_vars

ActionableTypes == {"click", "type", "scroll", "open_app"}

\* the plan has the shape the analyzer gives to the task type
PlanFits(task_type, plan) ==
    CASE task_type = "type" ->
           /\ Len(plan) = 2
           /\ plan[1].action_type = "click" /\ plan[1].target # None
           /\ plan[2].action_type = "type" /\ plan[2].text # NoKey
      [] task_type \in {"click", "scroll", "open_app"} ->
           /\ Len(plan) = 1
           /\ plan[1].action_type = task_type
      [] OTHER ->
           /\ Len(plan) = 1
           /\ plan[1].action_type = "analyze"
           /\ plan[1].target = None
           /\ plan[1].text = NoKey
           /\ plan[1].app_name = NoKey
           /\ plan[1].direction = NoKey

\* the step just taken is a call of command_analyzer_node that returned an
\* analysis
Analyzed ==
    /\ node = COMMAND_ANALYZER
    /\ state'.error_message = NoMessage

\* C34 (as stated): the analysis leaves a plan of the shape of its task
\* type - two steps for type, the focusing click and then the typing; one
\* step of the kind for click, scroll and open_app; the single analyze step
\* otherwise - and a task type that is actionable or is "analyze".
C34_PlanByTaskType_Analyze ==
    [][ Analyzed =>
          /\ PlanFits(state'.task_type, state'.execution_plan)
          /\ state'.task_type \in ActionableTypes \cup {"analyze"} ]_vars

\* C34 (amended): the analysis leaves a plan of the shape of its task type,
\* the single analyze step for every task type that is not actionable,
\* whatever that task type is.
C34_PlanByTaskType ==
    [][ Analyzed =>
          PlanFits(state'.task_type, state'.execution_plan) ]_vars

\* the analysis kept a task type it has no plan for and planned the single
\* analyze step
C34_Witness ==
    /\ last = COMMAND_ANALYZER
    /\ state.error_message = NoMessage
    /\ state.task_type \notin ActionableTypes \cup {"analyze", None}
    /\ Len(state.execution_plan) = 1
    /\ state.execution_plan[1].action_type = "analyze"

\* the action executor has just failed: by a failed result or by an
\* exception of its own, either of which leaves an error_message
ActFailed ==
    /\ last = ACTION_EXECUTOR
    /\ state.error_message # NoMessage

\* C35: a session started on an untouched context that has ended with
\* is_success set has is_completed set, its cursor at or past the end of
\* its plan, no failed result and no error_message; and once its action
\* executor has failed it never ends with is_success set.
C35_SuccessMeansAllSucceeded ==
    /\ [](( CleanStart /\ Finished /\ state.is_success ) =>
            /\ state.is_completed
            /\ state.execution_plan # NoList
            /\ state.current_step >= Len(state.execution_plan)
            /\ \A i \in DOMAIN state.execution_results :
                   state.execution_results[i].success
            /\ state.error_message = NoMessage)
    /\ [](( CleanStart /\ ActFailed ) =>
            [](Finished => ~state.is_success))

\* a session has ended with is_success set after executing its plan
C35_Witness ==
    /\ CleanStart
    /\ Finished
    /\ state.is_success
    /\ ACTION_EXECUTOR \in visited
    /\ state.execution_results # <<>>

\* C36: the calls of action_executor_node that executed a plan step - each
\* appended a result, and no result is ever removed - number at most
\* len(execution_plan) + max_retries.
C36_ExecutionsBounded ==
    state.execution_plan # NoList =>
        Len(state.execution_results)
            <= Len(state.execution_plan) + state.max_retries

\* a step was executed again after a recovery: more results than plan steps
C36_Witness ==
    /\ CleanStart
    /\ state.execution_plan # NoList
    /\ Len(state.execution_results) > Len(state.execution_plan)
    /\ state.retry_count >= 1

FailedResult(r) ==
    /\ r.outcome = "returned"
    /\ r.is_completed
    /\ ~r.is_success
    /\ r.error_message # NoMessage

\* C38: the call that runs a session never raises to its caller: whenever it
\* ends it has returned a result; when it ends before the graph has ended -
\* invoke raised an Exception - the result is completed, not succeeded and
\* carries an error message; and process_command on an agent whose graph
\* was never initialised returns a result of that shape with no step of the
\* graph executed.
C38_RunNeverRaises ==
    [][ (answer = NoResult /\ answer' # NoResult) =>
            /\ answer'.outcome = "returned"
            /\ node # END => FailedResult(answer')
            /\ entry = "no_graph" =>
                   /\ FailedResult(answer')
                   /\ visited' = {} /\ last' = START /\ state' = state ]_vars

\* a run whose graph raised after some step has returned the failed result
C38_Witness ==
    /\ entry = "run"
    /\ visited # {}
    /\ node # END
    /\ FailedResult(answer)
    /\ answer.error_message[1] = "graph_execution_failed"

\* coordinates closer than safety_margin to an edge of the screen, off the
\* screen, or inside a forbidden area of the settings
Unsafe(sv, x, y) ==
    \/ x < 0 \/ x > screen_width \/ y < 0 \/ y > screen_height
    \/ x < safety_margin \/ screen_width - x < safety_margin
    \/ y < safety_margin \/ screen_height - y < safety_margin
    \/ \E i \in 1..Len(sv.forbidden_areas) :
           /\ sv.forbidden_areas[i].x <= x
           /\ x <= sv.forbidden_areas[i].x + sv.forbidden_areas[i].width
           /\ sv.forbidden_areas[i].y <= y
           /\ y <= sv.forbidden_areas[i].y + sv.forbidden_areas[i].height

FailedClickRecord(r, x, y) ==
    /\ r.type = "click"
    /\ ~r.success
    /\ r.params.x = x /\ r.params.y = y

\* C39: click_at on a running service, at coordinates within safety_margin
\* of a screen edge, off the screen or inside a forbidden area, injects
\* nothing, returns False and appends one failed click record to the action
\* history; click_at, type_text and open_application on a service that is
\* not running (never started, or stopped) raise, inject nothing and record
\* nothing; and no click the service has injected is at such coordinates.
C39_NoUnsafeClick ==
    /\ [][ \A p \in Points, outcome \in InputOutcomes :
             ( /\ service.is_running
               /\ Unsafe(service, p[1], p[2])
               /\ service' = click_at(service, p[1], p[2], outcome) )
             => /\ service'.injected = service.injected
                /\ service'.returned = "False"
                /\ Len(service'.action_history) =
                       Len(service.action_history) + 1
                /\ SubSeq(service'.action_history, 1,
                          Len(service.action_history)) = service.action_history
                /\ FailedClickRecord(
                       service'.action_history[Len(service'.action_history)],
                       p[1], p[2]) ]_vars
    /\ [][ ( /\ ~service.is_running
             /\ \/ \E p \in Points, outcome \in InputOutcomes :
                       service' = click_at(service, p[1], p[2], outcome)
                \/ \E text \in Texts, outcome \in InputOutcomes :
                       service' = type_text(service, text, outcome)
                \/ \E app_name \in AppNames, outcome \in InputOutcomes :
                       service' = open_application(service, app_name, outcome) )
           => /\ service'.returned = "RuntimeError"
              /\ service'.injected = service.injected
              /\ service'.action_history = service.action_history ]_vars
    /\ [](\A i \in 1..Len(service.injected) :
              service.injected[i].type = "click" =>
                  ~Unsafe(service, service.injected[i].x, service.injected[i].y))

\* a started service refused a click inside the forbidden area, was stopped
\* and was called again
C39_Witness ==
    /\ service.forbidden_areas # <<>>
    /\ ~service.is_running
    /\ service.returned = "RuntimeError"
    /\ Len(service.action_history) = 1
    /\ FailedClickRecord(service.action_history[1], 120, 120)
    /\ service.injected = <<>>

\* a call has appended a record to the action history
RecordsAction ==
    /\ service'.action_history # service.action_history
    /\ service'.now = service.now + 1

\* C40: the action history never holds more than 1000 records; a call that
\* records an action appends its record, the newest, as the last one; and
\* when the history holds 1000 records already, the history after the call
\* is the 500 most recent records - the last 499 of the old history, in
\* their order, and then the new record.
C40_HistoryBounded ==
    /\ [](Len(service.action_history) <= 1000)
    /\ [][ RecordsAction =>
             LET old == service.action_history
                 new == service'.action_history
             IN  /\ new[Len(new)].timestamp = service.now
                 /\ \A i \in 1..(Len(new) - 1) :
                        new[i].timestamp < new[i + 1].timestamp
                 /\ Len(old) < 1000 =>
                        /\ Len(new) = Len(old) + 1
                        /\ SubSeq(new, 1, Len(old)) = old
                 /\ Len(old) = 1000 =>
                        /\ Len(new) = 500
                        /\ SubSeq(new, 1, 499) = SubSeq(old, 502, 1000) ]_vars

\* the history was cut by the 1001st record and has grown again since
C40_Witness ==
    /\ Len(service.action_history) = 501
    /\ service.action_history[1].timestamp = -499
    /\ service.action_history[500].timestamp = 0
    /\ service.action_history[501].timestamp = 1

====
